---- MODULE Spec2Model ----
(***************************************************************************)
(* A model of linkedin_people_scraper.py: the run of                       *)
(* LinkedInPeopleScraper.run_search (setup_driver, login, one              *)
(* search_people per configured search, the page loop with                 *)
(* extract_profile_data, is_relevant_profile and go_to_next_page, and the  *)
(* finally clause that quits the driver) and of run, which saves what      *)
(* run_search returned, with the browser driver as a nondeterministic      *)
(* environment.                                                            *)
(*                                                                         *)
(* Text is a sequence of one-character strings, so that str.strip,         *)
(* str.lower, str.split and the `in` test are computed, not assumed.       *)
(***************************************************************************)
EXTENDS Integers, Sequences, FiniteSets, TLC

VARIABLES
    config,        \* self.config: credentials, searches, max_pages, max_retries
    pc,            \* position of the run inside run_search
    driver,        \* self.driver: "None" or "Chrome"
    launched,      \* webdriver.Chrome(...) returned a browser in this run
    quitCount,     \* number of calls of self.driver.quit()
    exc,           \* the exception propagating out of run_search, "none" if none
    loggedIn,      \* the url_contains("/feed/") wait of login returned
    navLog,        \* the pages driver.get loaded, in order: "login", "search"
    idx,           \* position of the for loop of run_search in config["searches"]
    job_title,     \* search_people's job_title argument
    all_profiles,  \* run_search's all_profiles
    profiles,      \* search_people's profiles
    page_count,    \* search_people's page_count
    attempt,       \* go_to_next_page's attempt
    pagesVisited,  \* result pages shown to the current search
    extracted,     \* the pages (indices in PageChoices) the current search extracted
    results,       \* the value returned by each search_people call so far
    lastEnd,       \* how the last search_people call ended, "running" during one
    selfProfiles,  \* self.profiles
    retval,        \* the value run_search returned
    logged,        \* the error-level log entries search_people wrote in the last step
    saved,         \* run called save_to_csv
    csvRows,       \* the records run handed to save_to_csv
    relTitle,      \* is_relevant_profile: profile.title of the call
    relQuery,      \* is_relevant_profile: job_title of the call
    relDone,       \* is_relevant_profile: the call returned
    relOut,        \* is_relevant_profile: the value returned
    exCard,        \* extract_profile_data: the element of the call
    exDone,        \* extract_profile_data: the call returned
    exOut          \* extract_profile_data: the value returned

runVars == <<config, pc, driver, launched, quitCount, exc, loggedIn, navLog, idx,
             job_title, all_profiles, profiles, page_count, attempt, pagesVisited,
             extracted, results, lastEnd, selfProfiles, retval, logged, saved,
             csvRows>>
relVars == <<relTitle, relQuery, relDone, relOut>>
exVars == <<exCard, exDone, exOut>>
pureVars == <<relVars, exVars>>
\* What run_search and what it calls leave alone.
restVars == <<saved, csvRows, pureVars>>
vars == <<runVars, pureVars>>

(***************************************************************************)
(* Bounds of the model.                                                    *)
(***************************************************************************)
MaxSearches == 2   \* longest config["searches"]
MaxPages == 2      \* largest config["max_pages"]
MaxRetries == 2    \* largest config["max_retries"]
MaxLen == 3        \* longest text drawn for is_relevant_profile

(***************************************************************************)
(* Text: str.lower, str.strip, str.split and the substring test.           *)
(***************************************************************************)
UpperCase == <<"A", "B", "C", "D", "E", "F", "G", "H", "I", "J", "K", "L", "M",
               "N", "O", "P", "Q", "R", "S", "T", "U", "V", "W", "X", "Y", "Z">>
LowerCase == <<"a", "b", "c", "d", "e", "f", "g", "h", "i", "j", "k", "l", "m",
               "n", "o", "p", "q", "r", "s", "t", "u", "v", "w", "x", "y", "z">>
Whitespace == {" ", "\t", "\n", "\r", "\f"}

\* The lowercase letter of each uppercase letter.
LowerOf ==
    [c \in {UpperCase[i] : i \in 1..Len(UpperCase)} |->
        LowerCase[CHOOSE i \in 1..Len(UpperCase) : UpperCase[i] = c]]

LowerChar(c) == IF c \in DOMAIN LowerOf THEN LowerOf[c] ELSE c

\* str.lower()
Lower(s) == [i \in 1..Len(s) |-> LowerChar(s[i])]

RECURSIVE LStrip(_)
LStrip(s) ==
    IF s # <<>> /\ Head(s) \in Whitespace THEN LStrip(Tail(s)) ELSE s

RECURSIVE RStrip(_)
RStrip(s) ==
    IF s # <<>> /\ s[Len(s)] \in Whitespace
    THEN RStrip(SubSeq(s, 1, Len(s) - 1))
    ELSE s

\* str.strip()
Strip(s) == RStrip(LStrip(s))

\* str.split(): the maximal runs of non-whitespace characters, left to right;
\* cur is the run being read, acc the runs already closed.
RECURSIVE SplitFrom(_, _, _)
SplitFrom(s, cur, acc) ==
    IF s = <<>>
    THEN IF cur = <<>> THEN acc ELSE Append(acc, cur)
    ELSE IF Head(s) \in Whitespace
         THEN SplitFrom(Tail(s), <<>>, IF cur = <<>> THEN acc ELSE Append(acc, cur))
         ELSE SplitFrom(Tail(s), Append(cur, Head(s)), acc)

Split(s) == SplitFrom(s, <<>>, <<>>)

\* keyword in text
IsSubstr(k, t) ==
    \E off \in 0..(Len(t) - Len(k)) : SubSeq(t, off + 1, off + Len(k)) = k

(***************************************************************************)
(* is_relevant_profile                                                     *)
(***************************************************************************)
\* A slip: the profile title is compared without being lowercased.
is_relevant_profile_nolower(profile, jt) ==
    LET keywords == Split(Lower(jt))
    IN  \E n \in 1..Len(keywords) : IsSubstr(keywords[n], profile.title)

is_relevant_profile(profile, jt) ==
    LET job_title_lower == Lower(jt)
        profile_title_lower == Lower(profile.title)
        keywords == Split(job_title_lower)
    IN  \E n \in 1..Len(keywords) : IsSubstr(keywords[n], profile_title_lower)

(***************************************************************************)
(* Result cards.  For each field a card gives, per selector of the field's *)
(* list, what element.find_element and the read of the element do:        *)
(* "NoSuch" (NoSuchElementException), "Err" (another driver exception,    *)
(* such as a stale element), "Text" (an element, with its raw text or its  *)
(* href) or "NoAttr" (an element without href: get_attribute gives None).  *)
(***************************************************************************)
NoSuch == [kind |-> "NoSuch", text |-> <<>>]
Err == [kind |-> "Err", text |-> <<>>]
NoAttr == [kind |-> "NoAttr", text |-> <<>>]
Text(t) == [kind |-> "Text", text |-> t]

NA == <<"N", "/", "A">>

\* A slip: no break, so a later selector overrides an earlier one.
RECURSIVE LocateText_nobreak(_, _, _)
LocateText_nobreak(outs, i, val) ==
    IF i > Len(outs) THEN [val |-> val, raised |-> FALSE]
    ELSE IF outs[i].kind = "NoSuch" THEN LocateText_nobreak(outs, i + 1, val)
    ELSE IF outs[i].kind = "Err" THEN [val |-> val, raised |-> TRUE]
    ELSE LET v == Strip(outs[i].text)
         IN  LocateText_nobreak(outs, i + 1, IF v # <<>> THEN v ELSE val)

\* The selector loop of a text field, from selector i on, val being the
\* field's variable: the element's stripped text is assigned before it is
\* tested, NoSuchElementException goes to the next selector, any other
\* exception leaves the loop.
RECURSIVE LocateText(_, _, _)
LocateText(outs, i, val) ==
    IF i > Len(outs) THEN [val |-> val, raised |-> FALSE]
    ELSE IF outs[i].kind = "NoSuch" THEN LocateText(outs, i + 1, val)
    ELSE IF outs[i].kind = "Err" THEN [val |-> val, raised |-> TRUE]
    ELSE LET v == Strip(outs[i].text)
         IN  IF v # <<>> THEN [val |-> v, raised |-> FALSE]
             ELSE LocateText(outs, i + 1, v)

\* A Python str or None, for profile_url.
Str(t) == [none |-> FALSE, s |-> t]
PyNone == [none |-> TRUE, s |-> <<>>]

\* The selector loop of the profile link: href is not stripped.
RECURSIVE LocateLink(_, _, _)
LocateLink(outs, i, val) ==
    IF i > Len(outs) THEN [val |-> val, raised |-> FALSE]
    ELSE IF outs[i].kind = "NoSuch" THEN LocateLink(outs, i + 1, val)
    ELSE IF outs[i].kind = "Err" THEN [val |-> val, raised |-> TRUE]
    ELSE IF outs[i].kind = "NoAttr" THEN LocateLink(outs, i + 1, PyNone)
    ELSE IF outs[i].text # <<>> THEN [val |-> Str(outs[i].text), raised |-> FALSE]
    ELSE LocateLink(outs, i + 1, Str(<<>>))

LinkedInProfile(name, title, company, location, profile_url, about) ==
    [name |-> name, title |-> title, company |-> company, location |-> location,
     profile_url |-> profile_url, about |-> about, connections |-> <<>>]

\* Optional[LinkedInProfile]
NoProfile ==
    [some |-> FALSE, rec |-> LinkedInProfile(<<>>, <<>>, <<>>, <<>>, Str(<<>>), <<>>)]
Some(p) == [some |-> TRUE, rec |-> p]

\* The test that discards a card.
NameMissing(name) == name = NA

extract_profile_data(element) ==
    LET name == LocateText(element.name, 1, NA)
        link == LocateLink(element.link, 1, Str(<<>>))
        title == LocateText(element.title, 1, NA)
        location == LocateText(element.location, 1, NA)
        summary == LocateText(element.summary, 1, NA)
    IN  IF name.raised \/ link.raised \/ title.raised \/ location.raised
           \/ summary.raised
        THEN NoProfile
        ELSE IF NameMissing(name.val) THEN NoProfile
        ELSE Some(LinkedInProfile(name.val, title.val, summary.val, location.val,
                                  link.val, summary.val))

\* for element in profile_elements: ... profiles.append(profile)
RECURSIVE ForElements(_, _, _)
ForElements(elements, jt, acc) ==
    IF elements = <<>> THEN acc
    ELSE LET profile == extract_profile_data(Head(elements))
         IN  ForElements(Tail(elements), jt,
                 IF profile.some /\ is_relevant_profile(profile.rec, jt)
                 THEN Append(acc, profile.rec)
                 ELSE acc)

(***************************************************************************)
(* The inputs of the run: texts, cards, result pages and configurations.   *)
(***************************************************************************)
tAnn == <<" ", "A", "n", "n", " ">>
tBob == <<"B", "o", "b">>
tBlank == <<" ">>
tUrl == <<"/", "i", "n", "/", "x">>
tSDS == <<"S", "e", "n", "i", "o", "r", " ", "D", "a", "t", "a", " ", "S", "c", "i",
          "e", "n", "t", "i", "s", "t">>
tMM == <<"M", "a", "r", "k", "e", "t", "i", "n", "g", " ", "M", "a", "n", "a", "g",
         "e", "r">>
jDS == <<"D", "a", "t", "a", " ", "S", "c", "i", "e", "n", "t", "i", "s", "t">>
jSE == <<"S", "e", "n", "i", "o", "r", " ", "E", "n", "g", "i", "n", "e", "e", "r">>
tSE2 == <<"S", "t", "a", "f", "f", " ", "E", "n", "g", "i", "n", "e", "e", "r", " ",
          "I", "I">>
tPD == <<"P", "r", "o", "d", "u", "c", "t", " ", "D", "e", "s", "i", "g", "n", "e",
         "r">>

Card(name, link, title) ==
    [name |-> name, link |-> link, title |-> title,
     location |-> <<NoSuch, NoSuch, NoSuch>>, summary |-> <<NoSuch, NoSuch, NoSuch>>]

\* name under the first selector, title "Senior Data Scientist"
cardAnn == Card(<<Text(tAnn), NoSuch, NoSuch, NoSuch>>,
                <<Text(tUrl), NoSuch, NoSuch>>,
                <<Text(tSDS), NoSuch, NoSuch>>)
\* name under the third selector, title "Marketing Manager"
cardBob == Card(<<NoSuch, NoSuch, Text(tBob), NoSuch>>,
                <<NoSuch, NoAttr, NoSuch>>,
                <<NoSuch, Text(tMM), NoSuch>>)
\* no name selector matches
cardNoName == Card(<<NoSuch, NoSuch, NoSuch, NoSuch>>,
                   <<NoSuch, NoSuch, Text(tUrl)>>,
                   <<Text(tSDS), NoSuch, NoSuch>>)
\* the only name element found has blank text
cardBlank == Card(<<NoSuch, NoSuch, NoSuch, Text(tBlank)>>,
                  <<Text(tUrl), NoSuch, NoSuch>>,
                  <<Text(jDS), NoSuch, NoSuch>>)
\* the name resolves, reading the title raises in the driver
cardStale == Card(<<Text(tBob), NoSuch, NoSuch, NoSuch>>,
                  <<Text(tUrl), NoSuch, NoSuch>>,
                  <<Err, NoSuch, NoSuch>>)

\* What driver.find_elements may return for a result page.
PageChoices ==
    << <<>>, <<cardAnn, cardBob>>, <<cardNoName, cardBlank, cardStale>> >>

JobTitles == {jDS, <<>>}

RECURSIVE SeqsUpTo(_, _)
SeqsUpTo(S, n) ==
    IF n = 0 THEN {<<>>}
    ELSE LET shorter == SeqsUpTo(S, n - 1)
         IN  shorter \cup {Append(q, x) : q \in {r \in shorter : Len(r) = n - 1}, x \in S}

Configs ==
    { c \in [hasCreds : BOOLEAN, hasSearches : BOOLEAN,
             searches : SeqsUpTo(JobTitles, MaxSearches),
             badEntry : 0..MaxSearches,
             max_pages : {-1} \cup (0..MaxPages),
             max_retries : 0..MaxRetries] :
        /\ ~c.hasSearches => c.searches = <<>>
        /\ c.badEntry <= Len(c.searches) }

(***************************************************************************)
(* The run: run_search and what it calls.                                  *)
(***************************************************************************)
RunInit(c) ==
    /\ config = c
    /\ pc = "setup"
    /\ driver = "None"
    /\ launched = FALSE
    /\ quitCount = 0
    /\ exc = "none"
    /\ loggedIn = FALSE
    /\ navLog = <<>>
    /\ idx = 1
    /\ job_title = <<>>
    /\ all_profiles = <<>>
    /\ profiles = <<>>
    /\ page_count = 0
    /\ attempt = 0
    /\ pagesVisited = 0
    /\ extracted = <<>>
    /\ results = <<>>
    /\ lastEnd = "none"
    /\ selfProfiles = <<>>
    /\ retval = <<>>
    /\ logged = {}
    /\ saved = FALSE
    /\ csvRows = <<>>

RelIdle ==
    /\ relTitle = <<>>
    /\ relQuery = <<>>
    /\ relDone = FALSE
    /\ relOut = FALSE

ExIdle ==
    /\ exCard = cardAnn
    /\ exDone = FALSE
    /\ exOut = NoProfile

Init == (\E c \in Configs : RunInit(c)) /\ RelIdle /\ ExIdle

\* An exception leaves the try block of run_search.
Raise(e) ==
    /\ exc' = e
    /\ pc' = "finally"

\* setup_driver: webdriver.Chrome may raise; so may the calls after it, with
\* self.driver already set.
SetupDriver ==
    /\ pc = "setup"
    /\ \E out \in {"chromeFails", "scriptFails", "ok"} :
        /\ driver' = IF out = "chromeFails" THEN driver ELSE "Chrome"
        /\ launched' = (out # "chromeFails")
        /\ IF out = "ok" THEN pc' = "login" /\ exc' = exc
           ELSE Raise("WebDriverException")
    /\ UNCHANGED <<config, quitCount, loggedIn, navLog, idx, job_title, all_profiles,
                   profiles, page_count, attempt, pagesVisited, extracted, results,
                   lastEnd, selfProfiles, retval, logged, restVars>>

\* The exception login ends with, given what the driver does: the login page
\* is loaded first, then the credentials are looked up, then the form is
\* filled and the "/feed/" URL awaited.
LoginResult(hasCreds, out) ==
    IF out = "getFails" THEN "WebDriverException"
    ELSE IF ~hasCreds THEN "ValueError"
    ELSE IF out = "noUsernameField" THEN "TimeoutException"
    ELSE IF out = "noPasswordField" THEN "NoSuchElementException"
    ELSE IF out = "noFeedUrl" THEN "TimeoutException"
    ELSE "none"

\* A slip: the handler logs the timeout and does not raise.
LoginHandler_swallows(e) == "none"

\* The TimeoutException handler of login: log, then raise.
LoginHandler(e) == e

Login ==
    /\ pc = "login"
    /\ \E out \in {"getFails", "noUsernameField", "noPasswordField", "noFeedUrl", "ok"} :
        LET e == LoginResult(config.hasCreds, out)
            thrown == IF e = "TimeoutException" THEN LoginHandler(e) ELSE e
        IN  /\ navLog' = IF out = "getFails" THEN navLog ELSE Append(navLog, "login")
            /\ loggedIn' = (e = "none")
            /\ IF thrown = "none" THEN pc' = "for" /\ exc' = exc
               ELSE Raise(thrown)
    /\ UNCHANGED <<config, driver, launched, quitCount, idx, job_title, all_profiles,
                   profiles, page_count, attempt, pagesVisited, extracted, results,
                   lastEnd, selfProfiles, retval, logged, restVars>>

\* for search_config in self.config["searches"]: no such key.
SearchesMissing ==
    /\ pc = "for"
    /\ ~config.hasSearches
    /\ Raise("KeyError")
    /\ UNCHANGED <<config, driver, launched, quitCount, loggedIn, navLog, idx,
                   job_title, all_profiles, profiles, page_count, attempt,
                   pagesVisited, extracted, results, lastEnd, selfProfiles, retval,
                   logged, restVars>>

\* A search_config without "job_title": search_config["job_title"] raises.
InvalidSearch ==
    /\ pc = "for"
    /\ config.hasSearches
    /\ idx <= Len(config.searches)
    /\ idx = config.badEntry
    /\ Raise("KeyError")
    /\ logged' = {}
    /\ UNCHANGED <<config, driver, launched, quitCount, loggedIn, navLog, idx,
                   job_title, all_profiles, profiles, page_count, attempt,
                   pagesVisited, extracted, results, lastEnd, selfProfiles, retval,
                   restVars>>

\* The next search_config: search_people is called with its job_title.
StartSearch ==
    /\ pc = "for"
    /\ config.hasSearches
    /\ idx <= Len(config.searches)
    /\ idx # config.badEntry
    /\ job_title' = config.searches[idx]
    /\ profiles' = <<>>
    /\ page_count' = 0
    /\ attempt' = 0
    /\ pagesVisited' = 0
    /\ extracted' = <<>>
    /\ lastEnd' = "running"
    /\ logged' = {}
    /\ pc' = "load"
    /\ UNCHANGED <<config, driver, launched, quitCount, exc, loggedIn, navLog, idx,
                   all_profiles, results, selfProfiles, retval, restVars>>

\* The for loop is over: self.profiles = all_profiles; return all_profiles.
FinishSearches ==
    /\ pc = "for"
    /\ config.hasSearches
    /\ idx > Len(config.searches)
    /\ selfProfiles' = all_profiles
    /\ retval' = all_profiles
    /\ pc' = "finally"
    /\ logged' = {}
    /\ UNCHANGED <<config, driver, launched, quitCount, exc, loggedIn, navLog, idx,
                   job_title, all_profiles, profiles, page_count, attempt,
                   pagesVisited, extracted, results, lastEnd, restVars>>

\* A slip: records already collected by an earlier search are skipped.
Extend_dedup(all, res) ==
    LET fresh(r) == \A i \in 1..Len(all) : all[i] # r
    IN  all \o SelectSeq(res, fresh)

\* all_profiles.extend(profiles)
Extend(all, res) == all \o res

\* search_people returns res to run_search, having logged the errors in
\* log on its way out; run_search extends all_profiles with res, sleeps
\* and takes the next search_config; go_to_next_page's attempt is gone with
\* its frame.
SearchReturns(res, why, log) ==
    /\ attempt' = 0
    /\ results' = Append(results, res)
    /\ lastEnd' = why
    /\ logged' = log
    /\ all_profiles' = Extend(all_profiles, res)
    /\ idx' = idx + 1
    /\ pc' = "for"
    /\ exc' = exc

\* A slip: the test lets the loop run once more.
WhileCond_inclusive(count, max_pages) == count <= max_pages

\* while page_count < max_pages
WhileCond(count, max_pages) == count < max_pages

\* A slip: the load of the search page is not guarded, its exception leaves
\* search_people.
LoadFailed_raises ==
    /\ Raise("WebDriverException")
    /\ logged' = {}
    /\ UNCHANGED <<results, lastEnd, all_profiles, idx, attempt>>

\* The except clause around the load of the search page: log, return [].
LoadFailed == SearchReturns(<<>>, "loadFailed", {"load"})

\* search_people loads the search URL and waits for document.readyState.
LoadSearch ==
    /\ pc = "load"
    /\ \E out \in {"getFails", "notReady", "ok"} :
        /\ navLog' = IF out = "getFails" THEN navLog ELSE Append(navLog, "search")
        /\ IF out = "ok"
           THEN /\ pagesVisited' = 1
                /\ pc' = "while"
                /\ logged' = {}
                /\ UNCHANGED <<results, lastEnd, all_profiles, idx, exc, attempt>>
           ELSE /\ pagesVisited' = pagesVisited
                /\ LoadFailed
    /\ UNCHANGED <<config, driver, launched, quitCount, loggedIn, job_title, profiles,
                   page_count, extracted, selfProfiles, retval, restVars>>

\* The test of the while loop of search_people; return profiles after it.
WhileTest ==
    /\ pc = "while"
    /\ IF WhileCond(page_count, config.max_pages)
       THEN /\ pc' = "page"
            /\ logged' = {}
            /\ UNCHANGED <<results, lastEnd, all_profiles, idx, exc, attempt>>
       ELSE SearchReturns(profiles, "budget", {})
    /\ UNCHANGED <<config, driver, launched, quitCount, loggedIn, navLog, job_title,
                   profiles, page_count, pagesVisited, extracted, selfProfiles,
                   retval, restVars>>

\* scroll_page: its except clause logs the error and returns normally.
ScrollLog(scrolled) == IF scrolled THEN {} ELSE {"scroll"}

\* A slip: the except clause of the page loop re-raises after logging.
PageFailed_raises(log) ==
    /\ Raise("WebDriverException")
    /\ logged' = log \cup {"page"}
    /\ UNCHANGED <<results, lastEnd, all_profiles, idx, attempt>>

\* The except clause of the page loop: log the error, break; search_people
\* returns profiles.
PageFailed(log) == SearchReturns(profiles, "pageError", log \cup {"page"})

\* The body of the while loop up to go_to_next_page: scroll_page,
\* find_elements, the for loop over the cards.  An exception of
\* find_elements is caught by the loop's except clause.
ExtractPage ==
    /\ pc = "page"
    /\ \E scrolled \in BOOLEAN, out \in {"findFails", "ok"}, p \in 1..Len(PageChoices) :
        IF out = "ok"
        THEN /\ profiles' = ForElements(PageChoices[p], job_title, profiles)
             /\ extracted' = Append(extracted, p)
             /\ logged' = ScrollLog(scrolled)
             /\ pc' = "next"
             /\ UNCHANGED <<results, lastEnd, all_profiles, idx, exc, attempt>>
        ELSE /\ PageFailed(ScrollLog(scrolled))
             /\ UNCHANGED <<profiles, extracted>>
    /\ UNCHANGED <<config, driver, launched, quitCount, loggedIn, navLog, job_title,
                   page_count, pagesVisited, selfProfiles, retval, restVars>>

\* A slip: the missing next button is caught by the general except clause,
\* which logs an error.
NextPageLog_timeout(out) ==
    IF out \in {"notClickable", "waitError", "scrollFails"} THEN {"nav"} ELSE {}

\* What go_to_next_page logs at error level before its click loop: nothing
\* for a TimeoutException of the wait (an info entry) and for a disabled
\* button, an error for any other exception.
NextPageLog(out) == IF out \in {"waitError", "scrollFails"} THEN {"nav"} ELSE {}

\* go_to_next_page up to the click loop: the wait for a clickable next
\* button, is_enabled, scrollIntoView.  Every way out but the click loop
\* returns False, and search_people breaks.
GoToNextPage ==
    /\ pc = "next"
    /\ \E out \in {"notClickable", "waitError", "disabled", "scrollFails", "clickable"} :
        IF out = "clickable" /\ config.max_retries > 0
        THEN /\ pc' = "click"
             /\ attempt' = 0
             /\ logged' = {}
             /\ UNCHANGED <<results, lastEnd, all_profiles, idx, exc>>
        ELSE SearchReturns(profiles,
                 IF out = "notClickable" THEN "noMorePages"
                 ELSE IF out \in {"waitError", "scrollFails"} THEN "navError"
                 ELSE "notAdvanced",
                 NextPageLog(out))
    /\ UNCHANGED <<config, driver, launched, quitCount, loggedIn, navLog, job_title,
                   profiles, page_count, pagesVisited, extracted, selfProfiles,
                   retval, restVars>>

\* A slip: the test is off by one, so one more click is made.
LastAttempt_late(att, max_retries) == att = max_retries

\* if attempt == self.max_retries - 1
LastAttempt(att, max_retries) == att = max_retries - 1

\* A slip: giving up returns [] as a failed page load does, and not profiles.
ClickExhausted_drops == SearchReturns(<<>>, "aborted", {"click"})

\* The last attempt failed: log the error, return False; search_people
\* breaks and returns profiles.
ClickExhausted == SearchReturns(profiles, "aborted", {"click"})

\* One pass of the click loop: click, wait for staleness of the old button.
\* go_to_next_page returns True at the first success, and its attempt is
\* gone with its frame.
ClickAttempt ==
    /\ pc = "click"
    /\ \E stale \in BOOLEAN :
        IF stale
        THEN /\ page_count' = page_count + 1
             /\ pagesVisited' = pagesVisited + 1
             /\ pc' = "while"
             /\ attempt' = 0
             /\ logged' = {}
             /\ UNCHANGED <<results, lastEnd, all_profiles, idx, exc>>
        ELSE IF LastAttempt(attempt, config.max_retries)
             THEN /\ ClickExhausted
                  /\ UNCHANGED <<page_count, pagesVisited>>
             ELSE /\ attempt' = attempt + 1
                  /\ logged' = {}
                  /\ UNCHANGED <<pc, page_count, pagesVisited, results, lastEnd,
                                 all_profiles, idx, exc>>
    /\ UNCHANGED <<config, driver, launched, quitCount, loggedIn, navLog, job_title,
                   profiles, extracted, selfProfiles, retval, restVars>>

\* A slip: the test of the finally clause inverted.
NeedsQuit_inverted(drv) == drv = "None"

\* if self.driver
NeedsQuit(drv) == drv # "None"

\* The finally clause of run_search, then the return or the re-raise.
Finally ==
    /\ pc = "finally"
    /\ quitCount' = IF NeedsQuit(driver) THEN quitCount + 1 ELSE quitCount
    /\ pc' = IF exc = "none" THEN "returned" ELSE "raised"
    /\ UNCHANGED <<config, driver, launched, exc, loggedIn, navLog, idx, job_title,
                   all_profiles, profiles, page_count, attempt, pagesVisited,
                   extracted, results, lastEnd, selfProfiles, retval, logged, restVars>>

\* A slip: the file is written also when there is no record.
RunSaves_always(e, profs) == e = "none"

\* run: profiles is bound only when run_search returned; if profiles
RunSaves(e, profs) == e = "none" /\ profs # <<>>

\* A slip: the except clause of run raises again after logging.
RunHandler_reraises(e) == e

\* The except clause of run: log "Scraping failed", nothing more.
RunHandler(e) == "none"

\* run after run_search: save_to_csv if there are profiles; an exception of
\* run_search or of save_to_csv is logged.
RunEnd ==
    /\ pc \in {"returned", "raised"}
    /\ saved' = RunSaves(exc, retval)
    /\ csvRows' = IF RunSaves(exc, retval) THEN retval ELSE <<>>
    /\ pc' = IF RunHandler(exc) = "none" THEN "done" ELSE "crashed"
    /\ UNCHANGED <<config, driver, launched, quitCount, exc, loggedIn, navLog, idx,
                   job_title, all_profiles, profiles, page_count, attempt,
                   pagesVisited, extracted, results, lastEnd, selfProfiles, retval,
                   logged, pureVars>>

Next ==
    \/ SetupDriver
    \/ Login
    \/ SearchesMissing
    \/ InvalidSearch
    \/ StartSearch
    \/ FinishSearches
    \/ LoadSearch
    \/ WhileTest
    \/ ExtractPage
    \/ GoToNextPage
    \/ ClickAttempt
    \/ Finally
    \/ RunEnd

Spec == Init /\ [][Next]_vars

(***************************************************************************)
(* is_relevant_profile on its own, over all short texts and the texts of   *)
(* the documented examples.                                                *)
(***************************************************************************)
RelChars == {"a", "A", "b", " "}
RelTexts == SeqsUpTo(RelChars, MaxLen) \cup {jSE, tSE2, tPD, jDS, tSDS, tMM}

RelInit ==
    /\ RunInit([hasCreds |-> TRUE, hasSearches |-> TRUE, searches |-> <<>>,
                badEntry |-> 0, max_pages |-> 0, max_retries |-> 0])
    /\ relTitle \in RelTexts
    /\ relQuery \in RelTexts
    /\ relDone = FALSE
    /\ relOut = FALSE
    /\ ExIdle

RelCall ==
    /\ ~relDone
    /\ relOut' = is_relevant_profile(
                     LinkedInProfile(tBob, relTitle, NA, NA, Str(<<>>), NA), relQuery)
    /\ relDone' = TRUE
    /\ UNCHANGED <<relTitle, relQuery, runVars, exVars>>

RelNext == RelCall

SpecRel == RelInit /\ [][RelNext]_vars

(***************************************************************************)
(* extract_profile_data on its own.  Each selector of a field finds        *)
(* nothing, raises, or finds an element whose text is blank or is a value  *)
(* that tells the selector (" v1", " v2", ...); a link may also lack href  *)
(* or have an empty one.                                                   *)
(***************************************************************************)
Digits == <<"1", "2", "3", "4">>
Val(i) == <<" ", "v", Digits[i]>>
Href(i) == <<"/", "i", "n", "/", Digits[i]>>

\* What the i-th selector of a text field, or of the link, may give.
TextAt(i) == {NoSuch, Err, Text(tBlank), Text(Val(i))}
LinkAt(i) == {NoSuch, Err, NoAttr, Text(<<>>), Text(Href(i))}

\* name_selectors has four patterns, the other lists three.
NameOuts ==
    {<<a, b, c, d>> : a \in TextAt(1), b \in TextAt(2), c \in TextAt(3),
                      d \in TextAt(4)}
FieldOuts == {<<a, b, c>> : a \in TextAt(1), b \in TextAt(2), c \in TextAt(3)}
LinkOuts == {<<a, b, c>> : a \in LinkAt(1), b \in LinkAt(2), c \in LinkAt(3)}

nothing == <<NoSuch, NoSuch, NoSuch>>
oneName == <<NoSuch, Text(Val(2)), NoSuch, NoSuch>>

ExCards ==
    {[name |-> n, link |-> nothing, title |-> t, location |-> nothing,
      summary |-> nothing] : n \in NameOuts, t \in FieldOuts}
    \cup
    {[name |-> oneName, link |-> l, title |-> nothing, location |-> o,
      summary |-> nothing] : l \in LinkOuts, o \in FieldOuts}
    \cup
    {[name |-> oneName, link |-> nothing, title |-> nothing, location |-> o,
      summary |-> u] : o \in FieldOuts, u \in FieldOuts}

ExInit ==
    /\ RunInit([hasCreds |-> TRUE, hasSearches |-> TRUE, searches |-> <<>>,
                badEntry |-> 0, max_pages |-> 0, max_retries |-> 0])
    /\ RelIdle
    /\ exCard \in ExCards
    /\ exDone = FALSE
    /\ exOut = NoProfile

ExCall ==
    /\ ~exDone
    /\ exOut' = extract_profile_data(exCard)
    /\ exDone' = TRUE
    /\ UNCHANGED <<exCard, runVars, relVars>>

ExNext == ExCall

SpecExtract == ExInit /\ [][ExNext]_vars

(***************************************************************************)
(* Vocabulary of the properties.                                           *)
(***************************************************************************)
Last(q) == q[Len(q)]

RECURSIVE Flatten(_)
Flatten(qs) == IF qs = <<>> THEN <<>> ELSE Head(qs) \o Flatten(Tail(qs))

Names(recs) == [i \in 1..Len(recs) |-> recs[i].name]

\* The records a page yields: those of its cards, in card order, that
\* extract_profile_data gives and is_relevant_profile keeps.
PageRecords(cards, jt) ==
    LET all == [i \in 1..Len(cards) |-> extract_profile_data(cards[i])]
        keep(p) == p.some /\ is_relevant_profile(p.rec, jt)
        kept == SelectSeq(all, keep)
    IN  [i \in 1..Len(kept) |-> kept[i].rec]

PagesRecords(pages, jt) ==
    Flatten([i \in 1..Len(pages) |-> PageRecords(PageChoices[pages[i]], jt)])

\* Some selector of the list finds an element whose trimmed text is not empty.
Resolves(outs) ==
    \E i \in 1..Len(outs) : outs[i].kind = "Text" /\ Strip(outs[i].text) # <<>>

\* The trimmed text of the first selector that gives one, NA if there is none.
Resolved(outs) ==
    IF Resolves(outs)
    THEN Strip(outs[CHOOSE i \in 1..Len(outs) :
                     /\ outs[i].kind = "Text" /\ Strip(outs[i].text) # <<>>
                     /\ \A j \in 1..(i - 1) :
                            ~(outs[j].kind = "Text" /\ Strip(outs[j].text) # <<>>)].text)
    ELSE NA

\* q[i..j] is a maximal run of non-whitespace characters of q.
IsToken(q, i, j) ==
    /\ 1 <= i /\ i <= j /\ j <= Len(q)
    /\ \A k \in i..j : q[k] \notin Whitespace
    /\ (i = 1 \/ q[i - 1] \in Whitespace)
    /\ (j = Len(q) \/ q[j + 1] \in Whitespace)

\* q[i..j] occurs in t, letter case apart.
OccursIn(q, i, j, t) ==
    \E off \in 0..(Len(t) - (j - i + 1)) :
        \A k \in i..j : LowerChar(t[off + k - i + 1]) = LowerChar(q[k])

\* The names of the cards whose name resolves and whose title has a keyword
\* of jt, in card order.
ResolvedRelevantNames(cards, jt) ==
    LET ok(c) == /\ Resolves(c.name)
                 /\ \E i, j \in 1..Len(jt) :
                        IsToken(jt, i, j) /\ OccursIn(jt, i, j, Resolved(c.title))
        kept == SelectSeq(cards, ok)
    IN  [i \in 1..Len(kept) |-> Resolved(kept[i].name)]

InSearch == pc \in {"load", "while", "page", "next", "click"}
Ended == pc \in {"returned", "raised"}
Left == Ended \/ pc \in {"done", "crashed"}

(***************************************************************************)
(* C1.  Every record a search collects has a non-empty name: a card on     *)
(* which no name selector gives non-empty text yields no record.           *)
(* The code breaks it: see cardBlank.                                      *)
(***************************************************************************)
C1_EveryRecordHasName ==
    /\ \A i \in 1..Len(profiles) : profiles[i].name # <<>>
    /\ \A i \in 1..Len(all_profiles) : all_profiles[i].name # <<>>

(***************************************************************************)
(* C2.  With a page budget max_pages = N, N >= 1, a search is never shown  *)
(* more than N result pages (the page loaded first and every page reached  *)
(* by a click on the next button).  The code breaks it: after the N-th     *)
(* page it still clicks.                                                   *)
(***************************************************************************)
C2_PagesWithinBudget ==
    config.max_pages >= 1 => pagesVisited <= config.max_pages

(***************************************************************************)
(* C3.  The step that gives up the click loop (the last of max_retries     *)
(* attempts failed) returns to the for loop of run_search, with no         *)
(* exception, the records of the pages extracted so far, each page once.   *)
(***************************************************************************)
C3_ExhaustedRetriesReturnAccumulated ==
    [][(pc = "click" /\ pc' \notin {"click", "while"}) =>
          /\ attempt = config.max_retries - 1
          /\ pc' = "for"
          /\ exc' = "none"
          /\ Len(extracted) = page_count + 1
          /\ results' = Append(results, PagesRecords(extracted, job_title))
          /\ lastEnd' = "aborted"]_vars

C3_Witness ==
    /\ pc = "for"
    /\ lastEnd = "aborted"
    /\ Len(extracted) >= 2
    /\ Len(Last(results)) >= 2

(***************************************************************************)
(* C4.  driver.quit() is never called twice, and a run that launched the   *)
(* browser has called it exactly once when run_search is left, by return   *)
(* or by exception.                                                        *)
(***************************************************************************)
C4_QuitExactlyOnce ==
    /\ quitCount <= 1
    /\ (~Left => quitCount = 0)
    /\ (Left /\ launched => quitCount = 1)

C4_Witness ==
    /\ pc = "raised"
    /\ launched
    /\ ~loggedIn
    /\ quitCount = 1

(***************************************************************************)
(* C5.  A run that fails for missing credentials or a missing searches     *)
(* list has launched no browser and loaded no page.  The code breaks it:   *)
(* both are looked up after setup_driver and after the login page is       *)
(* loaded.                                                                 *)
(***************************************************************************)
C5_ConfigErrorBeforeBrowser ==
    (pc = "raised" /\ exc \in {"ValueError", "KeyError"}) =>
        (~launched /\ navLog = <<>>)

(***************************************************************************)
(* C6.  is_relevant_profile returns true exactly when some maximal run of  *)
(* non-whitespace characters of the query occurs in the title, letter case *)
(* apart.                                                                  *)
(***************************************************************************)
C6_RelevantIffSomeTokenInTitle ==
    relDone =>
        (relOut <=> \E i, j \in 1..Len(relQuery) :
                        IsToken(relQuery, i, j) /\ OccursIn(relQuery, i, j, relTitle))

C6_Witness ==
    /\ relDone
    /\ relQuery = jSE
    /\ relTitle = tSE2
    /\ relOut

(***************************************************************************)
(* C7.  What a search returns is, in page order and card order, one record *)
(* for each card of the extracted pages whose name resolves and whose      *)
(* title is relevant to the job title, and nothing else.  The code breaks  *)
(* it through the nameless records of C1.                                  *)
(***************************************************************************)
C7_ExactlyResolvedRelevantCards ==
    (pc = "for" /\ results # <<>>) =>
        Names(Last(results)) =
            Flatten([i \in 1..Len(extracted) |->
                        ResolvedRelevantNames(PageChoices[extracted[i]],
                                              config.searches[idx - 1])])

(***************************************************************************)
(* C8.  A search whose page fails to load returns the empty list to        *)
(* run_search, with no exception and no page extracted, all_profiles is    *)
(* left as it was, and run_search goes on with the next configured search  *)
(* (one that has a job_title).                                             *)
(***************************************************************************)
C8_LoadFailureSkipsSearch ==
    [][/\ (pc = "load" /\ pc' # "while") =>
            /\ pc' = "for"
            /\ exc' = "none"
            /\ extracted' = <<>>
            /\ results' = Append(results, <<>>)
            /\ lastEnd' = "loadFailed"
            /\ all_profiles' = all_profiles
            /\ idx' = idx + 1
       /\ (pc = "for" /\ lastEnd = "loadFailed" /\ idx <= Len(config.searches)
              /\ idx # config.badEntry) =>
            /\ pc' = "load"
            /\ job_title' = config.searches[idx]]_vars

C8_Witness ==
    /\ pc = "for"
    /\ Len(results) = 2
    /\ results[1] = <<>>
    /\ navLog = <<"login", "search">>
    /\ results[2] # <<>>

(***************************************************************************)
(* C9.  No search runs before login has seen the "/feed/" URL: without it  *)
(* the run is in no search, has loaded no search page and holds no record, *)
(* and it ends by an exception, a timeout when the URL or the form did not *)
(* show up, after quitting the browser it launched.                        *)
(***************************************************************************)
C9_NoSearchBeforeLogin ==
    /\ (InSearch \/ pc = "for") => loggedIn
    /\ ~loggedIn =>
          /\ \A i \in 1..Len(navLog) : navLog[i] # "search"
          /\ all_profiles = <<>> /\ results = <<>> /\ retval = <<>>
          /\ selfProfiles = <<>>
          /\ Ended => (pc = "raised" /\ exc # "none" /\ (launched => quitCount = 1))
          /\ (Ended /\ config.hasCreds /\ navLog = <<"login">>) =>
                exc \in {"TimeoutException", "NoSuchElementException"}

C9_Witness ==
    /\ pc = "raised"
    /\ exc = "TimeoutException"
    /\ ~loggedIn
    /\ navLog = <<"login">>
    /\ quitCount = 1

(***************************************************************************)
(* C10.  all_profiles is always the results of the searches run so far,    *)
(* one after the other in the configured order, nothing dropped, reordered *)
(* or deduplicated; a run_search that returns has run every configured     *)
(* search and returns that concatenation.                                  *)
(***************************************************************************)
C10_ResultIsConcatenation ==
    /\ all_profiles = Flatten(results)
    /\ pc = "returned" =>
          /\ Len(results) = Len(config.searches)
          /\ retval = Flatten(results)
          /\ selfProfiles = retval

C10_Witness ==
    /\ pc = "returned"
    /\ Len(results) = 2
    /\ results[1] # <<>>
    /\ results[1] = results[2]
    /\ \E i, j \in 1..Len(results[1]) : i < j /\ results[1][i] = results[1][j]
    /\ Len(retval) = 2 * Len(results[1])

(***************************************************************************)
(* Vocabulary of the properties of extract_profile_data.                   *)
(***************************************************************************)
TextHit(o) == o.kind = "Text" /\ Strip(o.text) # <<>>
LinkHit(o) == o.kind = "Text" /\ o.text # <<>>

\* The first selector whose outcome is a hit, 0 if there is none.
First(outs, H(_)) ==
    IF \E i \in 1..Len(outs) : H(outs[i])
    THEN CHOOSE i \in 1..Len(outs) : H(outs[i]) /\ \A j \in 1..(i - 1) : ~H(outs[j])
    ELSE 0

\* A selector up to the first hit (any selector if there is no hit) raises.
RaisesBeforeHit(outs, H(_)) ==
    LET f == First(outs, H)
    IN  \E i \in 1..(IF f = 0 THEN Len(outs) ELSE f) : outs[i].kind = "Err"

TextIsFirstHit(outs, v) ==
    First(outs, TextHit) # 0 => v = Strip(outs[First(outs, TextHit)].text)

NoFieldRaises(c) ==
    /\ ~RaisesBeforeHit(c.name, TextHit)
    /\ ~RaisesBeforeHit(c.link, LinkHit)
    /\ ~RaisesBeforeHit(c.title, TextHit)
    /\ ~RaisesBeforeHit(c.location, TextHit)
    /\ ~RaisesBeforeHit(c.summary, TextHit)

(***************************************************************************)
(* C11.  In a record, each of name, title, location, summary and profile   *)
(* link for which some selector gives a non-empty value holds the value of *)
(* the first such selector; and the selectors after it are not consulted:  *)
(* a card whose name has a hit yields a record whenever no selector up to  *)
(* the first hit of each field raises, whatever the later ones would do.   *)
(***************************************************************************)
C11_FirstHitWins ==
    exDone =>
        /\ exOut.some =>
              /\ TextIsFirstHit(exCard.name, exOut.rec.name)
              /\ TextIsFirstHit(exCard.title, exOut.rec.title)
              /\ TextIsFirstHit(exCard.location, exOut.rec.location)
              /\ TextIsFirstHit(exCard.summary, exOut.rec.company)
              /\ TextIsFirstHit(exCard.summary, exOut.rec.about)
              /\ First(exCard.link, LinkHit) # 0 =>
                    exOut.rec.profile_url =
                        Str(exCard.link[First(exCard.link, LinkHit)].text)
        /\ (First(exCard.name, TextHit) # 0 /\ NoFieldRaises(exCard)) => exOut.some

C11_Witness ==
    /\ exDone
    /\ exCard.name = <<NoSuch, Text(Val(2)), Text(Val(3)), Err>>
    /\ exCard.title = <<Text(tBlank), Text(Val(2)), Text(Val(3))>>
    /\ exOut.some
    /\ exOut.rec.name = <<"v", "2">>
    /\ exOut.rec.title = <<"v", "2">>

(***************************************************************************)
(* C12.  In a record, each of title, company and location for which no     *)
(* selector gives non-empty text is the sentinel "N/A".  The code breaks   *)
(* it: an element found with blank text leaves the field empty.            *)
(***************************************************************************)
C12_SentinelWhenAbsent ==
    (exDone /\ exOut.some) =>
        /\ First(exCard.title, TextHit) = 0 => exOut.rec.title = NA
        /\ First(exCard.summary, TextHit) = 0 => exOut.rec.company = NA
        /\ First(exCard.location, TextHit) = 0 => exOut.rec.location = NA

(***************************************************************************)
(* C16.  A card whose name resolves is never dropped, whatever the lookup  *)
(* of its other fields does.  The code breaks it: an exception other than  *)
(* NoSuchElementException in any field drops the card.                     *)
(***************************************************************************)
C16_OnlyNameDiscards ==
    (exDone /\ First(exCard.name, TextHit) # 0
        /\ ~RaisesBeforeHit(exCard.name, TextHit)) => exOut.some

(***************************************************************************)
(* C13.  A search that has extracted max_pages pages (max_pages >= 1) does *)
(* not end as a pagination failure, whatever the next button does.  The    *)
(* code breaks it: it still tries to advance after the last page of the    *)
(* budget, and gives up with an error when the clicks fail.                *)
(***************************************************************************)
C13_BudgetEndsDone ==
    (pc = "for" /\ config.max_pages >= 1 /\ Len(extracted) = config.max_pages) =>
        lastEnd # "aborted"

(***************************************************************************)
(* C14.  In the click loop, a click is only made as attempt number         *)
(* 0 .. max_retries - 1; the loop is left as successful exactly by the     *)
(* attempt that reaches a new page (staleness), which ends the clicks of   *)
(* this advance; a failed attempt is followed by the next attempt, or, if  *)
(* it was the last, by the end of the search as aborted.                   *)
(***************************************************************************)
C14_ClickLoop ==
    [][pc = "click" =>
          /\ attempt >= 0 /\ attempt < config.max_retries
          /\ (pagesVisited' = pagesVisited + 1) <=> (pc' = "while")
          /\ pc' = "while" =>
                (page_count' = page_count + 1 /\ attempt' = 0
                    /\ lastEnd' = "running")
          /\ pc' # "while" =>
                /\ pagesVisited' = pagesVisited
                /\ page_count' = page_count
                /\ IF attempt + 1 < config.max_retries
                   THEN pc' = "click" /\ attempt' = attempt + 1
                   ELSE pc' = "for" /\ lastEnd' = "aborted"]_vars

C14_Witness ==
    /\ pc = "click"
    /\ attempt = 1
    /\ config.max_retries = 2
    /\ page_count = 1
    /\ pagesVisited = 2

(***************************************************************************)
(* C15.  As claimed: search_people writes an error-level entry after the   *)
(* page was loaded only as a search ends aborted, and a search that ends   *)
(* for a missing or disabled next button, or for its budget, has written   *)
(* none and returns its records.  The code writes more of them.            *)
(***************************************************************************)
PaginationLog == logged \ {"load"}
EndedDone == pc = "for" /\ lastEnd \in {"noMorePages", "notAdvanced", "budget"}

C17_LocalFailuresStayLocal ==
    (loggedIn /\ config.hasSearches /\ config.badEntry = 0) =>
        /\ exc = "none"
        /\ pc \notin {"raised", "crashed"}
        /\ idx \in 1..(Len(config.searches) + 1)
        /\ Len(results) = idx - 1
        /\ InSearch => (idx <= Len(config.searches) /\ job_title = config.searches[idx])
        /\ pc \in {"finally", "returned", "done"} => Len(results) = Len(config.searches)
        /\ pc # "done" => ENABLED Next

C17_Witness ==
    /\ pc = "for"
    /\ idx = 3
    /\ Len(config.searches) = 2
    /\ results[1] = <<>>
    /\ navLog = <<"login", "search">>
    /\ lastEnd = "pageError"
    /\ "scroll" \in logged

(***************************************************************************)
(* C18.  Every step of a run lowers a natural-number measure of what is    *)
(* left to do, so no run takes more steps than the measure of its first    *)
(* state; a search extracts at most max_pages pages (none for max_pages    *)
(* <= 0), advances at most max_pages times, and a click is only made as    *)
(* attempt number below max_retries.                                       *)
(***************************************************************************)
AtLeast0(n) == IF n > 0 THEN n ELSE 0
\* steps of one pass of the page loop: test, page, next, clicks
PassCost == 3 + AtLeast0(config.max_retries)
\* steps of one search: start, load, the passes, the last test
SearchCost == 3 + AtLeast0(config.max_pages) * PassCost
PassesLeft == AtLeast0(config.max_pages) - page_count
Rank ==
    LET after == (Len(config.searches) - idx) * SearchCost + 3
    IN  CASE pc = "setup" -> Len(config.searches) * SearchCost + 5
          [] pc = "login" -> Len(config.searches) * SearchCost + 4
          [] pc = "for" -> after + SearchCost
          [] pc = "load" -> after + SearchCost - 1
          [] pc = "while" -> after + PassesLeft * PassCost + 1
          [] pc = "page" -> after + PassesLeft * PassCost
          [] pc = "next" -> after + PassesLeft * PassCost - 1
          [] pc = "click" -> after + PassesLeft * PassCost - 2 - attempt
          [] pc = "finally" -> 2
          [] pc \in {"returned", "raised"} -> 1
          [] OTHER -> 0

C18_EveryStepLowersRank ==
    [][/\ Rank' < Rank
       /\ Rank' >= 0
       /\ Len(extracted') <= AtLeast0(config.max_pages)
       /\ page_count' <= AtLeast0(config.max_pages)
       /\ pc' = "click" => attempt' < config.max_retries]_vars

C18_Witness ==
    /\ pc = "done"
    /\ config.max_pages = 2
    /\ Len(extracted) = 2
    /\ Len(results) = 2
    /\ lastEnd = "aborted"

(***************************************************************************)
(* C19.  save_to_csv has been called exactly in the runs that are over     *)
(* with run_search having returned a non-empty list; it is called with     *)
(* that list, after the browser was quit.                                  *)
(***************************************************************************)
C19_ExportIffRecords ==
    /\ saved => (pc = "done" /\ exc = "none" /\ retval # <<>> /\ csvRows = retval
                    /\ quitCount = 1)
    /\ pc = "done" => (saved <=> (exc = "none" /\ retval # <<>>))
    /\ ~saved => csvRows = <<>>

C19_Witness ==
    /\ pc = "done"
    /\ saved
    /\ Len(csvRows) >= 2
    /\ quitCount = 1

(***************************************************************************)
(* C20.  A run in which an exception leaves run_search has stored nothing  *)
(* in self.profiles, returned nothing and saved nothing, whatever its      *)
(* searches had collected, and run ends normally.                          *)
(***************************************************************************)
C20_FatalErrorExportsNothing ==
    /\ pc # "crashed"
    /\ exc # "none" =>
          (~saved /\ csvRows = <<>> /\ selfProfiles = <<>> /\ retval = <<>>)

C20_Witness ==
    /\ pc = "done"
    /\ exc = "KeyError"
    /\ all_profiles # <<>>
    /\ ~saved
    /\ selfProfiles = <<>>

====
